---- MODULE Spec2Model ----
(***************************************************************************)
(* Client-side cart state synchronisation of the commercejs-react-cart     *)
(* storefront: the App component's three state slots, the CartNav toggle,  *)
(* the click handlers of ProductItem / CartItem / Cart, the promise        *)
(* callbacks of App, and the hosted commerce backend as the environment    *)
(* that serves, rejects or garbles each call.                              *)
(***************************************************************************)
EXTENDS Integers, Sequences, FiniteSets, TLC

VARIABLES
    merchant,       \* App: const [merchant, setMerchant] = useState({})
    products,       \* App: const [products, setProducts] = useState([])
    cart,           \* App: const [cart, setCart] = useState({})
    isCartVisible,  \* CartNav: const [isCartVisible, setCartVisible] = useState(false)
    mounted,        \* the useEffect(..., []) of App has run
    requests,       \* calls dispatched and not yet handled by the backend
    responses,      \* settled promises whose then/catch callback has not run yet
    remote,         \* the backend's line items of the session cart
    nextSeq,        \* dispatch order: the number the next call gets
    log,            \* number of console.log / console.error entries written
    lastApplied,    \* history: the call whose cart setCart stored last
    newestApplied,  \* history: the latest-dispatched call whose cart was stored
    prevAppliedOp,  \* history: the kind of call whose cart was stored before that
                    \* of lastApplied
    appliedClosed,  \* history: lastApplied was dispatched from the Cart panel and
                    \* its cart was stored while the toggle was Closed
    lastServed      \* history: the number of the cart call the backend carried
                    \* out last

vars == <<merchant, products, cart, isCartVisible, mounted, requests, responses,
          remote, nextSeq, log, lastApplied, newestApplied, prevAppliedOp,
          appliedClosed, lastServed>>

applied == <<lastApplied, newestApplied, prevAppliedOp, appliedClosed>>

history == <<applied, lastServed>>

slots == <<merchant, products, cart>>

------------------------------------------------------------------------------
(* Bounds of the model *)

\* largest quantity the backend accepts for one line item
MaxQty == 3
\* number of cart mutations dispatched in one run
MaxCalls == 2
\* number of cart mutations outstanding at once
MaxInFlight == 2

------------------------------------------------------------------------------
(* Values *)

Products == {"pA", "pB"}

\* products.data as the backend lists it
Catalog == <<"pA", "pB">>

\* the line item id the backend gives the line of a product
LineItemId(p) == IF p = "pA" THEN "iA" ELSE "iB"

LineItemIds == {LineItemId(p) : p \in Products}

\* unit price of a product, known to the backend only
Price(p) == IF p = "pA" THEN 2 ELSE 3

\* useState({}) : an object with no properties
EmptyRec == [kind |-> "empty"]

\* the JavaScript value undefined
Undefined == [kind |-> "undefined"]

\* the merchant record the backend returns
MerchantRec == [kind |-> "merchant"]

NoArg == "-"

\* stands for undefined / NaN where a number is read
NoNumber == -1

StartupOps == {"merchant", "products", "retrieve"}
MutationOps == {"add", "update", "remove", "empty"}

\* the mutations whose buttons are in the Cart panel
PanelOps == {"update", "remove", "empty"}

CartOps == MutationOps \cup {"retrieve"}

RECURSIVE SumQty(_)
SumQty(items) ==
    IF items = <<>> THEN 0 ELSE Head(items).quantity + SumQty(Tail(items))

RECURSIVE SumTotal(_)
SumTotal(items) ==
    IF items = <<>> THEN 0 ELSE Head(items).line_total + SumTotal(Tail(items))

\* the cart object the backend serialises from its line items
CartObject(items) ==
    [kind |-> "cart",
     line_items |-> items,
     total_items |-> SumQty(items),
     total_unique_items |-> Len(items),
     subtotal |-> SumTotal(items)]

LineItem(p, q) ==
    [id |-> LineItemId(p), product_id |-> p, quantity |-> q,
     line_total |-> Price(p) * q]

HasItem(items, id) == \E i \in 1..Len(items) : items[i].id = id

HasProduct(items, p) == \E i \in 1..Len(items) : items[i].product_id = p

\* the quantity shown for a line item, 0 when the cart has no such line
QuantityOf(items, id) ==
    IF HasItem(items, id)
    THEN items[CHOOSE i \in 1..Len(items) : items[i].id = id].quantity
    ELSE 0

RECURSIVE Without(_, _)
Without(items, id) ==
    IF items = <<>> THEN <<>>
    ELSE IF Head(items).id = id THEN Without(Tail(items), id)
    ELSE <<Head(items)>> \o Without(Tail(items), id)

------------------------------------------------------------------------------
(* The hosted commerce backend (environment) *)

\* commerce.cart.add(productId, quantity)
RemoteAdd(items, p, q) ==
    IF HasProduct(items, p)
    THEN [i \in 1..Len(items) |->
            IF items[i].product_id = p
            THEN LineItem(p, items[i].quantity + q)
            ELSE items[i]]
    ELSE Append(items, LineItem(p, q))

\* commerce.cart.update(lineItemId, { quantity })
RemoteUpdate(items, id, n) ==
    IF n < 1 THEN Without(items, id)
    ELSE [i \in 1..Len(items) |->
            IF items[i].id = id
            THEN LineItem(items[i].product_id, n)
            ELSE items[i]]

\* commerce.cart.remove(lineItemId)
RemoteRemove(items, id) == Without(items, id)

\* commerce.cart.empty()
RemoteEmpty(items) == <<>>

\* the backend's line items once it has carried out a call
RemoteApply(items, req) ==
    CASE req.op = "add" -> RemoteAdd(items, req.id, req.quantity)
      [] req.op = "update" -> RemoteUpdate(items, req.id, req.quantity)
      [] req.op = "remove" -> RemoteRemove(items, req.id)
      [] req.op = "empty" -> RemoteEmpty(items)
      [] OTHER -> items

\* whether the backend can carry out a call (otherwise it answers with an error)
RemoteAccepts(items, req) ==
    CASE req.op = "add" ->
            /\ req.quantity >= 1
            /\ QuantityOf(items, LineItemId(req.id)) + req.quantity <= MaxQty
      [] req.op = "update" -> HasItem(items, req.id) /\ req.quantity <= MaxQty
      [] req.op = "remove" -> HasItem(items, req.id)
      [] OTHER -> TRUE

\* what a fulfilled promise resolves with
Payload(items, req) ==
    IF req.op = "retrieve"
    THEN CartObject(items)
    ELSE [kind |-> "envelope", cart |-> CartObject(items)]

\* what commerce.merchants.about() resolves with
MerchantPayload == MerchantRec

\* what commerce.products.list() resolves with
ProductsPayload == [kind |-> "list", data |-> Catalog]

Response(req, ok, payload) ==
    [seq |-> req.seq, op |-> req.op, id |-> req.id, quantity |-> req.quantity,
     shown |-> req.shown, ok |-> ok, payload |-> payload]

\* the backend carries out a call and the promise is fulfilled
RemoteServe(req) ==
    /\ req \in requests
    /\ req.op \in CartOps
    /\ RemoteAccepts(remote, req)
    /\ remote' = RemoteApply(remote, req)
    /\ requests' = requests \ {req}
    /\ responses' = responses \cup {Response(req, TRUE, Payload(remote', req))}
    /\ UNCHANGED <<merchant, products, cart, isCartVisible, mounted, nextSeq, log,
                   applied>>
    /\ lastServed' = req.seq

\* network failure or non-success status: the promise is rejected
RemoteFail(req) ==
    /\ req \in requests
    /\ req.op \in CartOps
    /\ requests' = requests \ {req}
    /\ responses' = responses \cup {Response(req, FALSE, [kind |-> "error"])}
    /\ UNCHANGED <<merchant, products, cart, isCartVisible, mounted, remote,
                   nextSeq, log, history>>

\* the call is carried out but the fulfilled envelope carries no cart
RemoteMalformed(req) ==
    /\ req \in requests
    /\ req.op \in MutationOps
    /\ RemoteAccepts(remote, req)
    /\ remote' = RemoteApply(remote, req)
    /\ requests' = requests \ {req}
    /\ responses' = responses \cup
            {Response(req, TRUE, [kind |-> "envelope", cart |-> Undefined])}
    /\ UNCHANGED <<merchant, products, cart, isCartVisible, mounted, nextSeq, log,
                   applied>>
    /\ lastServed' = req.seq

------------------------------------------------------------------------------
(* Rendering *)

\* CartNav's open button reads cart.total_items unless cart is null
CartNavThrows(c, visible) == ~visible /\ c = Undefined

\* Cart reads cart.total_unique_items, cart.line_items.map and
\* cart.subtotal.formatted_with_symbol
CartThrows(c) == c.kind # "cart"

\* a render of the tree throws a TypeError; nothing catches it
RenderFault(c, visible) ==
    \/ CartNavThrows(c, visible)
    \/ visible /\ CartThrows(c)

\* the tree has been torn down by an uncaught render error
crashed == RenderFault(cart, isCartVisible)

\* {isCartVisible && <Cart cart={cart} ... />} is on screen
CartMounted == isCartVisible /\ ~crashed

\* the rows Cart.renderItems puts on screen
RenderedItems ==
    IF CartMounted
    THEN {cart.line_items[i] : i \in 1..Len(cart.line_items)}
    ELSE {}

\* the cards ProductsList puts on screen
RenderedProducts ==
    IF crashed THEN {} ELSE {products[i] : i \in 1..Len(products)}

------------------------------------------------------------------------------
(* App: dispatching calls *)

Outstanding ==
    {r \in requests : r.op \in MutationOps}
        \cup {r \in responses : r.op \in MutationOps}

\* the model's bounds on the calls one run makes
MayDispatch ==
    /\ nextSeq - 4 < MaxCalls
    /\ Cardinality(Outstanding) < MaxInFlight

\* the total_items the nav shows (cart.total_items; no number for {})
ShownTotal == IF cart.kind = "cart" THEN cart.total_items ELSE NoNumber

\* the total_unique_items the panel goes by (cart.total_unique_items)
ShownUnique == IF cart.kind = "cart" THEN cart.total_unique_items ELSE NoNumber

\* what a call records of the screen it was dispatched from: total_items for
\* an add, total_unique_items for a remove
Shown(op) ==
    CASE op = "add" -> ShownTotal
      [] op = "remove" -> ShownUnique
      [] OTHER -> NoNumber

\* a call; shown records what was on screen when it was dispatched
Request(seq, op, id, quantity, shown) ==
    [seq |-> seq, op |-> op, id |-> id, quantity |-> quantity, shown |-> shown]

\* no call has had its cart stored yet
NoCall == Request(0, "none", NoArg, 0, NoNumber)

Send(op, id, quantity) ==
    /\ requests' = requests \cup
            {Request(nextSeq, op, id, quantity, Shown(op))}
    /\ nextSeq' = nextSeq + 1

\* slip: the dependency array is left out, so the effect runs after every render
EffectDue_everyRender == TRUE

\* useEffect(() => { fetchMerchantDetails(); fetchProducts(); fetchCart(); }, [])
EffectDue == ~mounted

Mount ==
    /\ EffectDue
    /\ nextSeq <= MaxCalls + 4
    /\ mounted' = TRUE
    /\ requests' = requests \cup
            {Request(nextSeq, "merchant", NoArg, 0, NoNumber),
             Request(nextSeq + 1, "products", NoArg, 0, NoNumber),
             Request(nextSeq + 2, "retrieve", NoArg, 0, NoNumber)}
    /\ nextSeq' = nextSeq + 3
    /\ UNCHANGED <<merchant, products, cart, isCartVisible, responses, remote, log,
                   history>>

handleAddToCart(productId, quantity) == Send("add", productId, quantity)

handleRemoveFromCart(lineItemId) == Send("remove", lineItemId, 0)

handleUpdateCartQty(lineItemId, quantity) == Send("update", lineItemId, quantity)

handleEmptyCart == Send("empty", NoArg, 0)

UiFrame == UNCHANGED <<merchant, products, cart, isCartVisible, mounted,
                       responses, remote, log, history>>

\* ProductItem: the Quick add button
ClickQuickAdd(product) ==
    /\ mounted /\ MayDispatch
    /\ product \in RenderedProducts
    /\ handleAddToCart(product, 1)
    /\ UiFrame

\* slip: the "-" button without the quantity branch
ClickDecrement_noBranch(item) ==
    /\ mounted /\ MayDispatch
    /\ item \in RenderedItems
    /\ handleUpdateCartQty(item.id, item.quantity - 1)
    /\ UiFrame

\* CartItem: the "-" button
ClickDecrement(item) ==
    /\ mounted /\ MayDispatch
    /\ item \in RenderedItems
    /\ IF item.quantity > 1
       THEN handleUpdateCartQty(item.id, item.quantity - 1)
       ELSE handleRemoveFromCart(item.id)
    /\ UiFrame

\* change: the "+" button counts the changes of this line item still pending
\* on top of the rendered quantity
ClickIncrement_countsPending(item) ==
    /\ mounted /\ MayDispatch
    /\ item \in RenderedItems
    /\ handleUpdateCartQty(item.id,
            item.quantity + 1 + Cardinality({q \in Outstanding :
                                    q.op = "update" /\ q.id = item.id}))
    /\ UiFrame

\* CartItem: the "+" button
ClickIncrement(item) ==
    /\ mounted /\ MayDispatch
    /\ item \in RenderedItems
    /\ handleUpdateCartQty(item.id, item.quantity + 1)
    /\ UiFrame

\* CartItem: the Remove button
ClickRemove(item) ==
    /\ mounted /\ MayDispatch
    /\ item \in RenderedItems
    /\ handleRemoveFromCart(item.id)
    /\ UiFrame

\* Cart: the Empty cart button
ClickEmptyCart ==
    /\ mounted /\ MayDispatch
    /\ CartMounted
    /\ handleEmptyCart
    /\ UiFrame

\* CartNav: onClick={() => setCartVisible(!isCartVisible)}
ToggleCart ==
    /\ mounted /\ ~crashed
    /\ isCartVisible' = ~isCartVisible
    /\ UNCHANGED <<merchant, products, cart, mounted, requests, responses,
                   remote, nextSeq, log, history>>

------------------------------------------------------------------------------
(* App: promise callbacks *)

\* a settled promise runs its callback once, while the tree is alive
Settle(r) ==
    /\ r \in responses
    /\ ~crashed
    /\ responses' = responses \ {r}
    /\ IF r.ok /\ r.op \in CartOps
       THEN /\ lastApplied' = Request(r.seq, r.op, r.id, r.quantity, r.shown)
            /\ newestApplied' =
                    IF r.seq > newestApplied.seq THEN lastApplied' ELSE newestApplied
            /\ prevAppliedOp' = lastApplied.op
            /\ appliedClosed' = (r.op \in PanelOps /\ ~isCartVisible)
            /\ UNCHANGED lastServed
       ELSE UNCHANGED history
    /\ UNCHANGED <<isCartVisible, mounted, requests, remote, nextSeq>>

\* a call that reads nothing of the session settles in one step: its promise
\* is pending until it is fulfilled or rejected
SettleStateless(req) ==
    /\ req \in requests
    /\ ~crashed
    /\ requests' = requests \ {req}
    /\ UNCHANGED <<isCartVisible, mounted, responses, remote, nextSeq, history>>

\* .then((merchant) => { setMerchant(merchant); })
fetchMerchantDetailsThen(payload) ==
    merchant' = payload /\ UNCHANGED <<products, cart, log>>

\* .catch((error) => { console.log(...) })
fetchMerchantDetailsCatch ==
    log' = log + 1 /\ UNCHANGED <<merchant, products, cart>>

fetchMerchantDetailsSettled(req, ok) ==
    /\ req.op = "merchant"
    /\ SettleStateless(req)
    /\ IF ok THEN fetchMerchantDetailsThen(MerchantPayload)
       ELSE fetchMerchantDetailsCatch

\* .then((products) => { setProducts(products.data); })
fetchProductsThen(payload) ==
    products' = payload.data /\ UNCHANGED <<merchant, cart, log>>

fetchProductsCatch ==
    log' = log + 1 /\ UNCHANGED <<merchant, products, cart>>

fetchProductsSettled(req, ok) ==
    /\ req.op = "products"
    /\ SettleStateless(req)
    /\ IF ok THEN fetchProductsThen(ProductsPayload) ELSE fetchProductsCatch

\* slip: the then callback forgets setCart
fetchCartThen_keepsCart(r) ==
    cart' = cart /\ UNCHANGED <<merchant, products, log>>

\* .then((cart) => { setCart(cart); })
fetchCartThen(r) ==
    cart' = r.payload /\ UNCHANGED <<merchant, products, log>>

\* slip: the catch callback resets the slot
fetchCartCatch_resets(r) ==
    log' = log + 1 /\ cart' = EmptyRec /\ UNCHANGED <<merchant, products>>

fetchCartCatch(r) ==
    log' = log + 1 /\ UNCHANGED <<merchant, products, cart>>

fetchCartSettled(r) ==
    /\ r.op = "retrieve"
    /\ Settle(r)
    /\ IF r.ok THEN fetchCartThen(r) ELSE fetchCartCatch(r)

\* slip: setCart(item) stores the envelope instead of the cart in it
handleAddToCartThen_storesEnvelope(r) ==
    cart' = r.payload /\ UNCHANGED <<merchant, products, log>>

\* slip: the then callback forgets setCart
handleAddToCartThen_keepsCart(r) ==
    cart' = cart /\ UNCHANGED <<merchant, products, log>>

\* change: the client adds the quantity to the total on screen instead of
\* storing the response's cart
handleAddToCartThen_bumpsTotal(r) ==
    /\ cart' = IF cart.kind = "cart"
               THEN [cart EXCEPT !.total_items = @ + r.quantity]
               ELSE r.payload.cart
    /\ UNCHANGED <<merchant, products, log>>

\* .then((item) => { setCart(item.cart); })
handleAddToCartThen(r) ==
    cart' = r.payload.cart /\ UNCHANGED <<merchant, products, log>>

\* .catch((error) => { console.error(...) })
handleAddToCartCatch(r) ==
    log' = log + 1 /\ UNCHANGED <<merchant, products, cart>>

handleAddToCartSettled(r) ==
    /\ r.op = "add"
    /\ Settle(r)
    /\ IF r.ok THEN handleAddToCartThen(r) ELSE handleAddToCartCatch(r)

\* change: the line is filtered out of the cart on screen instead of storing
\* the response's cart
handleRemoveFromCartThen_filtersLocally(r) ==
    /\ cart' = IF cart.kind = "cart"
               THEN CartObject(Without(cart.line_items, r.id))
               ELSE cart
    /\ UNCHANGED <<merchant, products, log>>

\* .then((resp) => { setCart(resp.cart); })
handleRemoveFromCartThen(r) ==
    cart' = r.payload.cart /\ UNCHANGED <<merchant, products, log>>

handleRemoveFromCartCatch(r) ==
    log' = log + 1 /\ UNCHANGED <<merchant, products, cart>>

handleRemoveFromCartSettled(r) ==
    /\ r.op = "remove"
    /\ Settle(r)
    /\ IF r.ok THEN handleRemoveFromCartThen(r) ELSE handleRemoveFromCartCatch(r)

\* change: a response older than one already applied is discarded
handleUpdateCartQtyThen_dropsStale(r) ==
    /\ cart' = IF r.seq < newestApplied.seq THEN cart ELSE r.payload.cart
    /\ UNCHANGED <<merchant, products, log>>

\* change: the client writes the new quantity into the line item on screen and
\* keeps the rest of the cart, line_total included
handleUpdateCartQtyThen_patchesQuantity(r) ==
    /\ cart' = IF cart.kind = "cart"
               THEN [cart EXCEPT !.line_items =
                        [i \in 1..Len(cart.line_items) |->
                            IF cart.line_items[i].id = r.id
                            THEN [cart.line_items[i] EXCEPT !.quantity = r.quantity]
                            ELSE cart.line_items[i]]]
               ELSE cart
    /\ UNCHANGED <<merchant, products, log>>

\* .then((resp) => { setCart(resp.cart); })
handleUpdateCartQtyThen(r) ==
    cart' = r.payload.cart /\ UNCHANGED <<merchant, products, log>>

\* slip: the catch callback clears the slot
handleUpdateCartQtyCatch_clears(r) ==
    log' = log + 1 /\ cart' = EmptyRec /\ UNCHANGED <<merchant, products>>

handleUpdateCartQtyCatch(r) ==
    log' = log + 1 /\ UNCHANGED <<merchant, products, cart>>

handleUpdateCartQtySettled(r) ==
    /\ r.op = "update"
    /\ Settle(r)
    /\ IF r.ok THEN handleUpdateCartQtyThen(r) ELSE handleUpdateCartQtyCatch(r)

\* change: the callback is dropped when the panel that dispatched the call is
\* no longer mounted
handleEmptyCartThen_ifPanelOpen(r) ==
    /\ cart' = IF isCartVisible THEN r.payload.cart ELSE cart
    /\ UNCHANGED <<merchant, products, log>>

\* change: the client clears the line items of the cart on screen and keeps
\* the rest of it, totals included
handleEmptyCartThen_clearsItems(r) ==
    /\ cart' = IF cart.kind = "cart" THEN [cart EXCEPT !.line_items = <<>>] ELSE cart
    /\ UNCHANGED <<merchant, products, log>>

\* .then((resp) => { setCart(resp.cart); })
handleEmptyCartThen(r) ==
    cart' = r.payload.cart /\ UNCHANGED <<merchant, products, log>>

handleEmptyCartCatch(r) ==
    log' = log + 1 /\ UNCHANGED <<merchant, products, cart>>

handleEmptyCartSettled(r) ==
    /\ r.op = "empty"
    /\ Settle(r)
    /\ IF r.ok THEN handleEmptyCartThen(r) ELSE handleEmptyCartCatch(r)

------------------------------------------------------------------------------
(* Specification *)

\* the carts a returning session may already hold at the backend
InitialRemoteCarts == {<<>>, <<LineItem("pA", 2)>>}

Init ==
    /\ merchant = EmptyRec
    /\ products = <<>>
    /\ cart = EmptyRec
    /\ isCartVisible = FALSE
    /\ mounted = FALSE
    /\ requests = {}
    /\ responses = {}
    /\ remote \in InitialRemoteCarts
    /\ nextSeq = 1
    /\ log = 0
    /\ lastApplied = NoCall
    /\ newestApplied = NoCall
    /\ prevAppliedOp = NoCall.op
    /\ appliedClosed = FALSE
    /\ lastServed = 0

Next ==
    \/ Mount
    \/ ToggleCart
    \/ \E p \in RenderedProducts : ClickQuickAdd(p)
    \/ \E item \in RenderedItems : ClickDecrement(item)
    \/ \E item \in RenderedItems : ClickIncrement(item)
    \/ \E item \in RenderedItems : ClickRemove(item)
    \/ ClickEmptyCart
    \/ \E req \in requests : RemoteServe(req)
    \/ \E req \in requests : RemoteFail(req)
    \/ \E req \in requests : RemoteMalformed(req)
    \/ \E req \in requests, ok \in BOOLEAN : fetchMerchantDetailsSettled(req, ok)
    \/ \E req \in requests, ok \in BOOLEAN : fetchProductsSettled(req, ok)
    \/ \E r \in responses : fetchCartSettled(r)
    \/ \E r \in responses : handleAddToCartSettled(r)
    \/ \E r \in responses : handleRemoveFromCartSettled(r)
    \/ \E r \in responses : handleUpdateCartQtySettled(r)
    \/ \E r \in responses : handleEmptyCartSettled(r)

Spec == Init /\ [][Next]_vars

------------------------------------------------------------------------------
(* Properties *)

\* the step in which the callback of settled promise r runs
SettledStep(r) == r \in responses /\ responses' = responses \ {r}

\* the step in which the pending call q leaves the pending set
ConsumedStep(q) == q \in requests /\ requests' = requests \ {q}

\* the cart a fulfilled cart call carries: the value itself for retrieve, the
\* envelope's cart property for a mutation
CarriedCart(r) == IF r.op = "retrieve" THEN r.payload ELSE r.payload.cart

\* C1: the Cart slot is its initial empty record until a fulfilled cart call is
\* applied; every fulfilled cart call (retrieve, add, change quantity, remove,
\* empty) replaces the whole slot with the cart its response carries, and the
\* slot changes in no other step, so it always holds the cart of the most
\* recently applied response.
C1_SlotIsServerCart ==
    [][ /\ lastApplied = NoCall => cart = EmptyRec
        /\ lastApplied' = NoCall => cart' = EmptyRec
        /\ \A r \in responses :
              (SettledStep(r) /\ r.ok /\ r.op \in CartOps) => cart' = CarriedCart(r)
        /\ cart' # cart =>
              \E r \in responses :
                  SettledStep(r) /\ r.ok /\ r.op \in CartOps /\ cart' = CarriedCart(r)
      ]_vars

\* C1 witness: the slot holds the backend's non-empty cart brought by a mutation.
C1_Witness ==
    /\ lastApplied.op \in MutationOps
    /\ cart.kind = "cart"
    /\ cart.total_items > 0
    /\ cart = CartObject(remote)

\* C2: when the promise of add, change quantity, remove or empty is rejected, the
\* step that runs its catch callback leaves the Cart slot as it was, writes one
\* diagnostic entry, and stores or shows no error state (the other slots and the
\* toggle are unchanged and the tree renders as before).
C2_FailureLeavesCart ==
    [][ \A r \in responses :
          (SettledStep(r) /\ ~r.ok /\ r.op \in MutationOps) =>
              /\ cart' = cart
              /\ log' = log + 1
              /\ UNCHANGED <<merchant, products, isCartVisible>>
              /\ ~crashed'
      ]_vars

\* C2 witness: all three startup fetches succeeded, a mutation was rejected and
\* logged, and the slot still holds the cart the retrieval brought.
C2_Witness ==
    /\ merchant = MerchantRec
    /\ products = Catalog
    /\ lastApplied.op = "retrieve"
    /\ nextSeq > 4
    /\ Outstanding = {}
    /\ log >= 1
    /\ cart.kind = "cart"

\* C3: a fulfilled change-quantity response is applied when its callback runs,
\* whatever its place in dispatch order: also when a later-dispatched call has
\* already been applied, the quantity shown for the line item becomes the one
\* this (older) call asked for.
C3_LastResponseWins ==
    [][ \A r \in responses :
          (SettledStep(r) /\ r.ok /\ r.op = "update" /\ r.payload.cart.kind = "cart") =>
              /\ cart'.kind = "cart"
              /\ QuantityOf(cart'.line_items, r.id) = r.quantity
              /\ lastApplied'.seq = r.seq
      ]_vars

\* C3 witness: two change-quantity calls for one line item were carried out in
\* dispatch order, the response of the first was applied after that of the
\* second, and the quantity shown is the first call's while the backend holds
\* the second's.
C3_Witness ==
    /\ lastApplied.op = "update"
    /\ newestApplied.op = "update"
    /\ lastApplied.id = newestApplied.id
    /\ lastApplied.seq < newestApplied.seq
    /\ lastApplied.quantity # newestApplied.quantity
    /\ cart.kind = "cart"
    /\ QuantityOf(cart.line_items, lastApplied.id) = lastApplied.quantity
    /\ QuantityOf(remote, lastApplied.id) = newestApplied.quantity

\* C4: every change-quantity call dispatched is for a rendered line item, with
\* the rendered quantity plus or minus 1 and never below 1; a decrement at
\* rendered quantity 1 can therefore only dispatch remove, which is for a
\* rendered line item too.
C4_NoQuantityBelowOne ==
    [][ \A q \in requests' \ requests :
          /\ q.op = "update" =>
                /\ q.quantity >= 1
                /\ \E item \in RenderedItems :
                      /\ item.id = q.id
                      /\ q.quantity \in {item.quantity - 1, item.quantity + 1}
          /\ q.op = "remove" => \E item \in RenderedItems : item.id = q.id
      ]_vars

\* C4 witness: a line item brought down to quantity 1 by a decrement is
\* rendered at 1 and a remove for it is in flight.
C4_Witness ==
    /\ CartMounted
    /\ lastApplied.op = "update"
    /\ lastApplied.quantity = 1
    /\ QuantityOf(cart.line_items, lastApplied.id) = 1
    /\ \E q \in requests : q.op = "remove" /\ q.id = lastApplied.id

\* C5: while the Cart slot holds its initial empty record, the tree renders
\* without a fault, whether the toggle is Closed or Open.
C5_EmptyCartRenders == cart = EmptyRec => ~crashed

\* C6: a fulfilled mutation whose envelope carries no cart is handled like a
\* rejected one: the Cart slot is left unchanged and the tree renders as before.
C6_MalformedLeavesCart ==
    [][ \A r \in responses :
          (SettledStep(r) /\ r.ok /\ r.op \in MutationOps /\ r.payload.cart = Undefined) =>
              cart' = cart /\ ~crashed'
      ]_vars

\* C7: in every reachable state the Cart Panel is mounted exactly when the
\* toggle is Open (the toggle starts Closed and ToggleCart flips it).
C7_PanelMountedIffOpen == CartMounted <=> isCartVisible

\* C8: the three startup fetches are issued in one step, one call each, before
\* any other call, and never again; the Merchant and Product-list slots change
\* only in the step that settles their own startup fetch, from their initial
\* value.
C8_StartupOnce ==
    [][ /\ (\E q \in requests' \ requests : q.op \in StartupOps) =>
              /\ nextSeq = 1
              /\ \A op \in StartupOps :
                    Cardinality({q \in requests' \ requests : q.op = op}) = 1
        /\ merchant' # merchant =>
              /\ merchant = EmptyRec
              /\ \E q \in requests : q.op = "merchant" /\ ConsumedStep(q)
        /\ products' # products =>
              /\ products = <<>>
              /\ \E q \in requests : q.op = "products" /\ ConsumedStep(q)
      ]_vars

\* C8 witness: after the startup fetches settled, the toggle and a cart mutation
\* have re-rendered the tree, and no startup call is pending.
C8_Witness ==
    /\ mounted
    /\ merchant = MerchantRec
    /\ products = Catalog
    /\ isCartVisible
    /\ lastApplied.op \in MutationOps
    /\ \A q \in requests \cup responses : q.op \notin StartupOps

\* the steps that settle the merchant and the product-list fetch, and what the
\* success callback of the cart retrieval does (shared by both readings of C9)
C9_Stateless ==
    /\ \A q \in requests :
          (ConsumedStep(q) /\ q.op = "merchant") =>
              \/ merchant' = MerchantRec /\ UNCHANGED <<products, cart, log>>
              \/ merchant' = EmptyRec /\ log' = log + 1 /\ UNCHANGED <<products, cart>>
    /\ \A q \in requests :
          (ConsumedStep(q) /\ q.op = "products") =>
              \/ products' = Catalog /\ UNCHANGED <<merchant, cart, log>>
              \/ products' = <<>> /\ log' = log + 1 /\ UNCHANGED <<merchant, cart>>
    /\ \A r \in responses :
          (SettledStep(r) /\ r.op = "retrieve" /\ r.ok) =>
              cart' = r.payload /\ UNCHANGED <<merchant, products, log>>

\* C9 as stated: each startup success callback writes only its own slot, and
\* each failure callback only logs and leaves its slot at the initial value
\* (empty record, empty sequence, empty record), the other two untouched.
C9_FailureLeavesInitial ==
    [][ /\ C9_Stateless
        /\ \A r \in responses :
              (SettledStep(r) /\ r.op = "retrieve" /\ ~r.ok) =>
                  cart' = EmptyRec /\ log' = log + 1 /\ UNCHANGED <<merchant, products>>
      ]_vars

\* C9 amended: each startup success callback writes only its own slot, and each
\* failure callback only logs and leaves all three slots as they were: merchant
\* at the empty record, products at the empty sequence, and the cart at the
\* value it had (not the empty record when a mutation was applied before).
C9_FailureLeavesPrior ==
    [][ /\ C9_Stateless
        /\ \A r \in responses :
              (SettledStep(r) /\ r.op = "retrieve" /\ ~r.ok) =>
                  cart' = cart /\ log' = log + 1 /\ UNCHANGED <<merchant, products>>
      ]_vars

\* C9 witness: the merchant fetch and the cart retrieval were rejected, the
\* product list arrived, and the one mutation dispatched was applied: the slot
\* holds its cart, not the empty record, after the retrieval's failure.
C9_Witness ==
    /\ mounted
    /\ requests = {} /\ responses = {}
    /\ merchant = EmptyRec
    /\ products = Catalog
    /\ nextSeq = 5
    /\ lastApplied.seq = 4
    /\ newestApplied.seq = 4
    /\ log = 2
    /\ cart.kind = "cart"

\* C10 as stated: once the response of a fulfilled add of quantity q is applied,
\* the slot's total_items is exactly q greater than the total shown when the
\* call was dispatched.
C10_AddRaisesShownTotal ==
    [][ \A r \in responses :
          (SettledStep(r) /\ r.ok /\ r.op = "add" /\ r.payload.cart.kind = "cart"
             /\ r.shown # NoNumber) =>
              cart'.total_items = r.shown + r.quantity
      ]_vars

\* C10 amended: for every fulfilled add of quantity q, the cart the backend
\* returns has total_items exactly q greater than the backend's cart had when
\* it carried out the call, and once the response is applied the Cart slot is
\* that returned cart.
C10_AddRaisesRemoteTotal ==
    [][ /\ \A q \in requests :
              (ConsumedStep(q) /\ q.op = "add" /\ remote' # remote) =>
                  /\ SumQty(remote') = SumQty(remote) + q.quantity
                  /\ \A r \in responses' \ responses :
                        r.payload.cart.kind = "cart" =>
                            r.payload.cart.total_items = SumQty(remote')
        /\ \A r \in responses :
              (SettledStep(r) /\ r.ok /\ r.op = "add") => cart' = r.payload.cart
      ]_vars

\* C10 witness: an add was applied and the slot holds the backend's cart, whose
\* total is not the total shown at dispatch plus the quantity added.
C10_Witness ==
    /\ lastApplied.op = "add"
    /\ lastApplied.shown # NoNumber
    /\ cart = CartObject(remote)
    /\ cart.total_items # lastApplied.shown + lastApplied.quantity

ItemsOf(c, id) ==
    {c.line_items[i] : i \in {j \in 1..Len(c.line_items) : c.line_items[j].id = id}}

\* C12: for every fulfilled change-quantity call with new quantity n >= 1 on an
\* existing line item, the cart the backend returns holds that line item with
\* quantity n and the line_total the backend computed, and once the response is
\* applied the slot's line item is the response's: quantity n and the
\* response's line_total, not a value the client computed.
C12_QuantityAndTotalFromResponse ==
    [][ /\ \A q \in requests :
              (ConsumedStep(q) /\ q.op = "update" /\ q.quantity >= 1) =>
                  \A r \in responses' \ responses :
                      (r.ok /\ r.payload.cart.kind = "cart") =>
                          /\ HasItem(remote, q.id)
                          /\ ItemsOf(r.payload.cart, q.id) # {}
                          /\ ItemsOf(r.payload.cart, q.id) =
                                 ItemsOf(CartObject(remote'), q.id)
                          /\ \A it \in ItemsOf(r.payload.cart, q.id) :
                                 /\ it.quantity = q.quantity
                                 /\ it.line_total = Price(it.product_id) * q.quantity
        /\ \A r \in responses :
              (SettledStep(r) /\ r.ok /\ r.op = "update" /\ r.quantity >= 1
                 /\ r.payload.cart.kind = "cart") =>
                  /\ cart'.kind = "cart"
                  /\ ItemsOf(cart', r.id) # {}
                  /\ ItemsOf(cart', r.id) = ItemsOf(r.payload.cart, r.id)
                  /\ \A it \in ItemsOf(cart', r.id) : it.quantity = r.quantity
      ]_vars

\* C12 witness: a change of a line item's quantity to n was applied last, and
\* the slot shows that line item at quantity n with the backend's line_total
\* for n, a quantity other than the one the session started with.
C12_Witness ==
    /\ lastApplied.op = "update"
    /\ lastApplied.quantity >= 1
    /\ cart.kind = "cart"
    /\ \E it \in ItemsOf(cart, lastApplied.id) :
          /\ it.quantity = lastApplied.quantity
          /\ it.quantity # 2
          /\ it.line_total = Price(it.product_id) * lastApplied.quantity

\* C13: every fulfilled empty call leaves the backend's cart without line items
\* and returns that cart, and on an already-empty cart it changes nothing at the
\* backend; once its response is applied the slot has total_unique_items 0 and
\* no line items, after a first empty call and again after a second.
C13_EmptyIdempotent ==
    [][ /\ \A q \in requests :
              (ConsumedStep(q) /\ q.op = "empty") =>
                  \A r \in responses' \ responses :
                      r.ok =>
                          /\ remote' = <<>>
                          /\ remote = <<>> => remote' = remote
                          /\ r.payload.cart.kind = "cart" =>
                                 /\ r.payload.cart.total_unique_items = 0
                                 /\ r.payload.cart = CartObject(remote')
        /\ \A r \in responses :
              (SettledStep(r) /\ r.ok /\ r.op = "empty"
                 /\ r.payload.cart.kind = "cart") =>
                  /\ cart'.kind = "cart"
                  /\ cart'.total_unique_items = 0
                  /\ cart'.line_items = <<>>
                  /\ cart'.total_items = 0
      ]_vars

\* C13 witness: two empty calls were applied one after the other, nothing is
\* in flight, and the slot and the backend both hold the cart without items.
C13_Witness ==
    /\ prevAppliedOp = "empty"
    /\ lastApplied.op = "empty"
    /\ requests = {} /\ responses = {}
    /\ cart.kind = "cart"
    /\ cart.total_unique_items = 0
    /\ remote = <<>>

\* c is a cart whose totals agree with its line items, none of them at a
\* quantity below 1
WellFormedCart(c) ==
    /\ c.kind = "cart"
    /\ c.total_items = SumQty(c.line_items)
    /\ c.total_unique_items = Len(c.line_items)
    /\ \A i \in 1..Len(c.line_items) : c.line_items[i].quantity >= 1

\* C14 as stated: in every reachable state the Cart slot holds a well-formed
\* cart: total_items is the sum of the quantities of its line items,
\* total_unique_items is the number of its line items, and every line item has
\* quantity at least 1.
C14_SlotWellFormed == WellFormedCart(cart)

\* C14 amended: in every reachable state the Cart slot holds its initial empty
\* record (until the first fulfilled cart call is applied), or the undefined
\* stored from a fulfilled mutation whose envelope carried no cart, or a cart,
\* and every cart it holds is well formed.
C14_SlotCartWellFormed ==
    /\ cart = EmptyRec \/ cart = Undefined \/ cart.kind = "cart"
    /\ cart = EmptyRec => lastApplied = NoCall
    /\ cart.kind = "cart" => WellFormedCart(cart)

\* C14 witness: after a mutation was applied the slot holds a cart of two line
\* items, one of them at a quantity above 1, with totals that agree.
C14_Witness ==
    /\ lastApplied.op \in MutationOps
    /\ cart.kind = "cart"
    /\ cart.total_unique_items = 2
    /\ cart.total_items >= 3
    /\ WellFormedCart(cart)

\* the arguments of call q are those a click on the screen now rendered sends
FromRenderedSnapshot(q) ==
    CASE q.op = "add" -> q.id \in RenderedProducts /\ q.quantity = 1
      [] q.op = "update" ->
            \E item \in RenderedItems :
                /\ item.id = q.id
                /\ \/ q.quantity = item.quantity + 1
                   \/ item.quantity > 1 /\ q.quantity = item.quantity - 1
      [] q.op = "remove" -> \E item \in RenderedItems : item.id = q.id
      [] q.op = "empty" -> CartMounted
      [] OTHER -> FALSE

\* C15: after startup every step that dispatches dispatches exactly one call,
\* numbered next, with the arguments computed from the screen rendered at that
\* moment (quick add: quantity 1; "+": rendered quantity + 1; "-": rendered
\* quantity - 1 above 1, else remove), whatever is already in flight, and it
\* touches no slot; no callback of a settled promise and no backend step
\* dispatches a call, so nothing is retried.
C15_OneCallPerClick ==
    [][ /\ (mounted /\ requests' \ requests # {}) =>
              /\ \E q \in requests' \ requests :
                    /\ requests' = requests \cup {q}
                    /\ q.seq = nextSeq
                    /\ FromRenderedSnapshot(q)
              /\ nextSeq' = nextSeq + 1
              /\ UNCHANGED <<slots, responses, isCartVisible>>
        /\ responses' # responses =>
              /\ requests' \subseteq requests
              /\ nextSeq' = nextSeq
        /\ nextSeq' # nextSeq => requests' \ requests # {}
      ]_vars

\* C15 witness: two change-quantity calls for the same line item are in flight
\* together, both asking for the rendered quantity + 1: the second "+" click
\* was neither suppressed nor computed from the first.
C15_Witness ==
    \E q1, q2 \in requests :
        /\ q1.seq < q2.seq
        /\ q1.op = "update" /\ q2.op = "update"
        /\ q1.id = q2.id
        /\ q1.quantity = q2.quantity
        /\ \E item \in RenderedItems :
              item.id = q1.id /\ q1.quantity = item.quantity + 1

\* C16: a step that flips the toggle dispatches no call, drops no pending call
\* and no settled promise, and leaves the merchant, products and cart slots
\* unchanged; a pending cart call leaves the pending set only by being settled
\* by the backend, and a settled promise leaves only by its callback running;
\* the fulfilled response of a mutation dispatched from the Cart panel whose
\* callback runs while the toggle is Closed is stored in the Cart slot all the
\* same.
C16_CloseCancelsNothing ==
    [][ /\ isCartVisible' # isCartVisible =>
              UNCHANGED <<requests, responses, nextSeq, slots, remote, log>>
        /\ \A q \in requests \ requests' :
              q.op \in CartOps =>
                  \E r \in responses' \ responses :
                      r.seq = q.seq /\ r.op = q.op /\ r.id = q.id
        /\ \A r \in responses \ responses' :
              IF r.ok THEN cart' = CarriedCart(r) ELSE log' = log + 1
        /\ \A r \in responses :
              (SettledStep(r) /\ r.ok /\ r.op \in PanelOps /\ ~isCartVisible) =>
                  /\ cart' = r.payload.cart
                  /\ isCartVisible' = isCartVisible
      ]_vars

\* C16 witness: the toggle is Closed, and the cart now in the slot is the one
\* carried by the response of an empty-cart call, dispatched from the panel
\* and applied after the panel was closed.
C16_Witness ==
    /\ appliedClosed
    /\ ~isCartVisible
    /\ lastApplied.op = "empty"
    /\ prevAppliedOp # "empty"
    /\ cart = CartObject(<<>>)

\* no call is pending and no settled promise waits for its callback
Quiescent == requests = {} /\ responses = {}

\* C17: whenever nothing is in flight, if the cart stored last is that of the
\* call the backend carried out last (the responses of the calls carried out
\* reached the client in the backend's order, the last one with its cart), the
\* Cart slot equals the backend's current cart; so, with nothing in flight, the
\* slot differs from the backend's cart only when a response was overtaken,
\* a call failed, or a fulfilled response carried no cart.
C17_InOrderInSync ==
    /\ (Quiescent /\ lastServed # 0 /\ lastApplied.seq = lastServed
           /\ cart # Undefined) =>
            cart = CartObject(remote)
    /\ (Quiescent /\ mounted /\ cart # CartObject(remote)) =>
            \/ lastApplied.seq # lastServed
            \/ log > 0
            \/ cart = Undefined

\* C17 witness: both mutations of the session were carried out and applied in
\* dispatch order, no call failed, nothing is in flight, and the slot holds the
\* backend's current cart, which is not the one the session started with.
C17_Witness ==
    /\ Quiescent
    /\ mounted
    /\ log = 0
    /\ nextSeq = MaxCalls + 4
    /\ lastServed = nextSeq - 1
    /\ lastApplied.seq = lastServed
    /\ newestApplied = lastApplied
    /\ prevAppliedOp \in MutationOps
    /\ cart = CartObject(remote)
    /\ remote \notin InitialRemoteCarts

====
